---- MODULE Spec2Model ----
(***************************************************************************)
(* The run-control hub of aim: the CommandStore (sdk/control/              *)
(* command_store.py), the Command record (sdk/control/interfaces.py) and   *)
(* the ControlConnectionManager with its per-connection message loop       *)
(* (web/api/control/views.py), and the ControlClient of the training       *)
(* process (ext/transport/control_client.py).                              *)
(*                                                                         *)
(* The server is one asyncio event loop.  A coroutine runs without         *)
(* interruption from one suspension to the next, so every action below is  *)
(* the code between two awaits of one connection handler.  The awaits of   *)
(* the code are websocket.accept(), websocket.receive_json() and           *)
(* websocket.send_json().  `async with self._lock` never suspends: no      *)
(* critical section of the manager contains an await, so the lock is free  *)
(* whenever a coroutine asks for it.  The CommandStore's RLock is taken    *)
(* and released inside synchronous calls and is likewise never contended.  *)
(*                                                                         *)
(* The ControlClient is two threads: the training thread, which runs the   *)
(* constructor, poll_commands, _send_status_update and close, and the      *)
(* listener thread (_run_listener).  They share _running, _connected, _ws  *)
(* and the queue; an action of the client is one read or write of these,   *)
(* or one blocking call, by one thread.                                    *)
(***************************************************************************)
EXTENDS Integers, Sequences, FiniteSets, TLC

\* ------------------------------------------------------------------ bounds
MaxClients == 3       \* connections of the fan-out scenario
MaxFrames == 3        \* frames the server handles in the fan-out scenario
MixedClients == 4     \* connections of the mixed scenario
MixedFrames == 2      \* frames the server handles in the mixed scenario
StalledFrames == 2    \* frames the server handles in the stalled-peer scenario
ClientFrames == 3     \* frames the server sends to the ControlClient
EndToEndFrames == 2   \* frames the hub handles in the end-to-end scenario
InitTicks == 2        \* sleeps that make up the constructor's timeout
MaxOutbox == 1        \* frames of the client the hub has yet to read

\* ------------------------------------------------------------------ values
None == "None"                       \* Python None / an absent JSON key
Ids == {"c1", "c2"}

TRAINING == "training"
UI == "ui"
API == "api"
ConnectionType == {TRAINING, UI, API}

PENDING == "pending"
ACKNOWLEDGED == "acknowledged"
COMPLETED == "completed"
FAILED == "failed"
CommandStatus == {PENDING, ACKNOWLEDGED, COMPLETED, FAILED}

VARIABLES
    command_history,    \* CommandStore.command_history: sequence of Command
    command_dict,       \* CommandStore.command_dict: id -> position in the history
    _connections,       \* manager._connections: client id -> ClientConnection
    _run_connections,   \* manager._run_connections: run hash -> set of client ids
    pc,                 \* where each connection handler (control_websocket) stands
    client_type,        \* control_websocket's client_type argument
    run_hash,           \* control_websocket's run_hash argument
    message,            \* the frame the handler's send loop sends (local `message`)
    reply,              \* the error frame the handler is sending on its own socket
    todo,               \* client ids the handler's send loop has still to serve;
                        \* its head is the one whose send_json is awaited
    open,               \* whether the peer's transport is still up
    inbox,              \* frames each connected peer has received, in order
    peers,              \* the connections the environment makes: client id ->
                        \* the run_hash and client_type of its websocket URL,
                        \* and whether the peer has stopped reading its socket
    delivered,          \* value the handler's last send_command_to_training returned
    snapshot,           \* client ids the handler's running or last send loop snapshotted
    got,                \* those of them whose send_json completed
    updates,            \* status updates applied to a stored command so far
    warnings,           \* "not found for status update" warnings logged so far
    frames_left,        \* frames the server will still be sent
    _running,           \* ControlClient._running
    _connected,         \* ControlClient._connected
    _ws,                \* ControlClient._ws: None or the connection object
    _command_queue,     \* ControlClient._command_queue
    listener,           \* where the listener thread (_run_listener) stands
    trainer,            \* where the training thread stands in the client's methods
    waited,             \* sleeps the constructor has made waiting for the connection
    received,           \* frames of its socket the listener has taken with recv
    commands,           \* poll_commands' local list; after it returned, its result
    polled,             \* all commands poll_commands has returned, in order
    enqueued,           \* all commands the listener has put on the queue, in order
    outbox,             \* frames the client has sent that the server has not read
    reachable,          \* whether the control server accepts a connection
    at,                 \* where each handler stands with respect to the locks
    _lock,              \* holders of the manager's asyncio.Lock (none or one)
    store_lock          \* holders of the CommandStore's RLock (none or one)

vars ==
    <<command_history, command_dict, _connections, _run_connections, pc,
      client_type, run_hash, message, reply, todo, open, inbox, delivered, snapshot,
      got, updates, warnings, frames_left, peers, _running, _connected, _ws,
      _command_queue, listener, trainer, waited, received, commands, polled,
      enqueued, outbox, reachable, at, _lock, store_lock>>

lock_vars == <<at, _lock, store_lock>>
store_vars == <<command_history, command_dict>>
registry_vars == <<_connections, _run_connections>>
loop_vars == <<message, todo, snapshot, got>>
handler_vars ==
    <<command_history, command_dict, _connections, _run_connections, pc,
      client_type, run_hash, message, reply, todo, delivered, snapshot, got,
      updates, warnings, peers>>
thread_vars ==
    <<_running, _connected, _ws, _command_queue, listener, trainer, waited,
      received, commands, polled, enqueued, outbox, reachable>>
server_vars == <<handler_vars, lock_vars>>
client_vars == <<thread_vars, lock_vars>>

\* ------------------------------------------------------------- inputs
Clients == DOMAIN peers              \* client ids: one uuid4 per connection
Runs == {peers[c].run_hash : c \in Clients}

\* Frames a UI peer sends: command frames of the wire protocol (which carry
\* no status), a frame of another type, and command frames lacking a key.
UIFrames ==
    [type : {"command"}, id : Ids, run_hash : Runs, status : {None}]
        \cup {[type |-> "pause", id |-> "c1", run_hash |-> "r1", status |-> None],
              [type |-> "command", id |-> None, run_hash |-> "r1", status |-> None],
              [type |-> "command", id |-> "c1", run_hash |-> None, status |-> None]}

\* Frames a training peer sends: status updates, id or status possibly absent.
TrainingFrames ==
    [type : {"status_update"}, id : Ids \cup {None}, run_hash : {"r1"},
     status : CommandStatus \cup {None}]

Frames == UIFrames \cup TrainingFrames

\* A UI handler ignores every frame whose type is not 'command', a training
\* handler reads only id and status, any other handler reads nothing: the
\* frames below stand for all a peer of each type can send.
FramesFrom(connection_type) ==
    IF connection_type = UI THEN UIFrames
    ELSE IF connection_type = TRAINING THEN TrainingFrames
    ELSE {[type |-> "command", id |-> "c1", run_hash |-> "r1", status |-> None]}

\* ------------------------------------------------------------- Command
NoCommand == [id |-> None, run_hash |-> None, type |-> None, status |-> None]

\* Command.from_dict raises KeyError on a missing id, type or run_hash and
\* ValueError on a status that is no CommandStatus.
from_dict_raises(data) ==
    \/ data.id = None
    \/ data.type = None
    \/ data.run_hash = None
    \/ (data.status # None /\ data.status \notin CommandStatus)

from_dict(data) ==
    [id |-> data.id,
     type |-> data.type,
     run_hash |-> data.run_hash,
     status |-> IF data.status = None THEN PENDING ELSE data.status]

to_dict(command) ==
    [id |-> command.id,
     run_hash |-> command.run_hash,
     type |-> command.type,
     status |-> command.status]

\* ------------------------------------------------------------- CommandStore
Store == [command_history |-> command_history, command_dict |-> command_dict]

\* Mutant: the command is not persisted.
add_command_dropped(store, command) == store

add_command(store, command) ==
    [command_history |-> Append(store.command_history, command),
     command_dict |->
        (command.id :> (Len(store.command_history) + 1)) @@ store.command_dict]

\* Mutant: an unknown id falls back to the last record of the history.
update_command_status_last(store, command_id, new_status) ==
    IF command_id \in DOMAIN store.command_dict
    THEN [store EXCEPT
            !.command_history[store.command_dict[command_id]].status = new_status]
    ELSE IF store.command_history # <<>>
    THEN [store EXCEPT
            !.command_history[Len(store.command_history)].status = new_status]
    ELSE store

update_command_status(store, command_id, new_status) ==
    IF command_id \in DOMAIN store.command_dict
    THEN [store EXCEPT
            !.command_history[store.command_dict[command_id]].status = new_status]
    ELSE store

get_command(store, command_id) ==
    IF command_id \in DOMAIN store.command_dict
    THEN store.command_history[store.command_dict[command_id]]
    ELSE NoCommand

\* ------------------------------------------------------------- registry
Registry == [connections |-> _connections, run_connections |-> _run_connections]

connect(reg, client_id, run, connection_type) ==
    [connections |->
        (client_id :> [connection_type |-> connection_type, run_hash |-> run])
            @@ reg.connections,
     run_connections |->
        [reg.run_connections EXCEPT ![run] = @ \cup {client_id}]]

\* Mutant: a disconnect drops every connection of the client's run.
disconnect_run(reg, client_id) ==
    IF client_id \in DOMAIN reg.connections
    THEN LET run == reg.connections[client_id].run_hash
             gone == reg.run_connections[run]
         IN  [connections |->
                [c \in DOMAIN reg.connections \ gone |-> reg.connections[c]],
              run_connections |-> [reg.run_connections EXCEPT ![run] = {}]]
    ELSE reg

\* Mutant: a disconnect leaves the global map alone.
disconnect_run_only(reg, client_id) ==
    IF client_id \in DOMAIN reg.connections
    THEN [reg EXCEPT
            !.run_connections[reg.connections[client_id].run_hash] = @ \ {client_id}]
    ELSE reg

\* Mutant: a disconnect of an id that is not registered empties the registry.
disconnect_strict(reg, client_id) ==
    IF client_id \in DOMAIN reg.connections
    THEN [connections |->
            [c \in DOMAIN reg.connections \ {client_id} |-> reg.connections[c]],
          run_connections |->
            [reg.run_connections EXCEPT
                ![reg.connections[client_id].run_hash] = @ \ {client_id}]]
    ELSE [connections |-> <<>>,
          run_connections |-> [r \in DOMAIN reg.run_connections |-> {}]]

disconnect(reg, client_id) ==
    IF client_id \in DOMAIN reg.connections
    THEN [connections |->
            [c \in DOMAIN reg.connections \ {client_id} |-> reg.connections[c]],
          run_connections |->
            [reg.run_connections EXCEPT
                ![reg.connections[client_id].run_hash] = @ \ {client_id}]]
    ELSE reg

\* Mutant: the connection type is not filtered.
_get_training_clients_any(reg, run) == reg.run_connections[run]

_get_training_clients(reg, run) ==
    {c \in reg.run_connections[run] :
        reg.connections[c].connection_type = TRAINING}

\* Mutant: the connection type is not filtered.
_get_ui_clients_any(reg, run) == reg.run_connections[run]

_get_ui_clients(reg, run) ==
    {c \in reg.run_connections[run] : reg.connections[c].connection_type = UI}

\* Mutant: the list holds one of the members twice.
Orders_repeating(S) ==
    {s \in [1 .. Cardinality(S) + 1 -> S] : \A x \in S : \E i \in DOMAIN s : s[i] = x}

\* list(a set): the members in any order.
Orders(S) ==
    {s \in [1 .. Cardinality(S) -> S] :
        \A i, j \in 1 .. Cardinality(S) : i # j => s[i] # s[j]}

\* _send_to_client returns at once for a client id that is no longer in
\* _connections: the loop goes on to the first id that still is.
RECURSIVE skip_gone(_, _)
skip_gone(reg, ids) ==
    IF ids = <<>> THEN <<>>
    ELSE IF Head(ids) \in DOMAIN reg.connections THEN ids
    ELSE skip_gone(reg, Tail(ids))

\* ------------------------------------------------------------- frames
command_update(command, n) ==
    \* seq is not on the wire: it numbers the store update the frame reports
    [type |-> "command_update", data |-> to_dict(command), seq |-> n]

error_frame(code) == [type |-> "error", error |-> code]

NoFrame == [type |-> None]           \* no frame

\* ------------------------------------------------------------- Init
\* A UI tab and two training workers of one run (further peers are UI tabs).
FanoutPeers ==
    [c \in 1 .. MaxClients |->
        [run_hash |-> "r1", client_type |-> IF c \in {2, 3} THEN TRAINING ELSE UI,
         stalled |-> FALSE]]

\* A UI tab, a training worker and an API client of run r1, UI tabs of run r2.
MixedPeers ==
    [c \in 1 .. MixedClients |->
        [run_hash |-> IF c <= 3 THEN "r1" ELSE "r2",
         client_type |-> IF c = 2 THEN TRAINING ELSE IF c = 3 THEN API ELSE UI,
         stalled |-> FALSE]]

\* A UI tab and two training workers of one run; the first worker has
\* stopped reading its socket, so that a send to it does not complete.
StalledPeers ==
    [c \in {1, 2, 3} |->
        [run_hash |-> "r1", client_type |-> IF c = 1 THEN UI ELSE TRAINING,
         stalled |-> c = 2]]

InitState ==
    /\ command_history = <<>>
    /\ command_dict = <<>>
    /\ _connections = <<>>
    /\ _run_connections = [r \in Runs |-> {}]
    /\ pc = [c \in Clients |-> "new"]
    /\ client_type = [c \in Clients |-> None]
    /\ run_hash = [c \in Clients |-> None]
    /\ message = [c \in Clients |-> NoFrame]
    /\ reply = [c \in Clients |-> NoFrame]
    /\ todo = [c \in Clients |-> <<>>]
    /\ open = [c \in Clients |-> FALSE]
    /\ inbox = [c \in Clients |-> <<>>]
    /\ delivered = [c \in Clients |-> None]
    /\ snapshot = [c \in Clients |-> {}]
    /\ got = [c \in Clients |-> {}]
    /\ updates = 0
    /\ warnings = 0
    /\ at = [c \in Clients |-> "accept"]
    /\ _lock = {}
    /\ store_lock = {}

\* ControlClient.__init__ up to the start of the listener thread.
InitClient ==
    /\ _running = TRUE
    /\ _connected = FALSE
    /\ _ws = None
    /\ _command_queue = <<>>
    /\ listener = "unstarted"
    /\ waited = 0
    /\ received = 0
    /\ commands = <<>>
    /\ polled = <<>>
    /\ enqueued = <<>>
    /\ outbox = <<>>

\* The scenarios of the hub alone: no ControlClient is constructed.
NoClient == InitClient /\ trainer = "absent" /\ reachable = FALSE

Init == peers = FanoutPeers /\ frames_left = MaxFrames /\ InitState /\ NoClient

InitMixed == peers = MixedPeers /\ frames_left = MixedFrames /\ InitState /\ NoClient

InitStalled ==
    peers = StalledPeers /\ frames_left = StalledFrames /\ InitState /\ NoClient

\* ------------------------------------------------------------- actions
\* control_websocket up to its first receive_json: accept, register.
control_websocket(c, run, connection_type) ==
    /\ pc[c] = "new"
    /\ run = peers[c].run_hash
    /\ connection_type = peers[c].client_type
    /\ LET reg == connect(Registry, c, run, connection_type)
       IN  /\ _connections' = reg.connections
           /\ _run_connections' = reg.run_connections
    /\ pc' = [pc EXCEPT ![c] = "receive"]
    /\ client_type' = [client_type EXCEPT ![c] = connection_type]
    /\ run_hash' = [run_hash EXCEPT ![c] = run]
    /\ open' = [open EXCEPT ![c] = TRUE]
    /\ UNCHANGED <<store_vars, loop_vars, reply, inbox, delivered, updates,
                   warnings, frames_left, peers>>

\* A peer other than the ControlClient connects.
Connect(c, run, connection_type) ==
    /\ control_websocket(c, run, connection_type)
    /\ UNCHANGED client_vars

\* receive_json returns or raises ValueError: the peer has sent a frame.
Receive(c) ==
    /\ pc[c] = "receive"
    /\ open[c]
    /\ frames_left > 0
    /\ frames_left' = frames_left - 1

\* The handler starts replying with an error frame on its own socket.
StartReply(c, code) ==
    /\ reply' = [reply EXCEPT ![c] = error_frame(code)]
    /\ pc' = [pc EXCEPT ![c] = "reply"]
    /\ UNCHANGED <<store_vars, registry_vars, client_type, run_hash, peers,
                   loop_vars, open, inbox, delivered, updates, warnings>>

\* receive_json raises ValueError: the frame is no JSON.
ReceiveMalformed(c) ==
    /\ Receive(c)
    /\ StartReply(c, "invalid_json")
    /\ UNCHANGED client_vars

\* handle_ui_message and send_command_to_training up to its first send_json.
handle_ui_message(c, data) ==
    /\ IF data.type # "command"
       THEN UNCHANGED <<store_vars, registry_vars, pc, client_type, run_hash,
                        peers, loop_vars, reply, open, inbox, delivered, updates,
                        warnings>>
       ELSE IF from_dict_raises(data)
       THEN StartReply(c, "bad_request")
       ELSE /\ LET command == from_dict(data)
                   store == add_command(Store, command)
                   training_clients == _get_training_clients(Registry, run_hash[c])
               IN  /\ command_history' = store.command_history
                   /\ command_dict' = store.command_dict
                   /\ snapshot' = [snapshot EXCEPT ![c] = training_clients]
                   /\ got' = [got EXCEPT ![c] = {}]
                   /\ IF training_clients = {}
                      THEN /\ delivered' = [delivered EXCEPT ![c] = "False"]
                           /\ UNCHANGED <<pc, message, todo>>
                      ELSE /\ \E order \in Orders(training_clients) :
                                todo' = [todo EXCEPT ![c] = order]
                           /\ message' = [message EXCEPT ![c] = to_dict(command)]
                           /\ pc' = [pc EXCEPT ![c] = "fanout"]
                           /\ delivered' = [delivered EXCEPT ![c] = None]
            /\ UNCHANGED <<registry_vars, client_type, run_hash, peers, reply, open,
                           inbox, updates, warnings>>

\* handle_training_message, handle_command_status_update and
\* _broadcast_command_update up to its first send_json.
handle_training_message(c, data) ==
    /\ IF data.status \notin CommandStatus
       THEN \* CommandStatus(data.get('status')) raises ValueError
            StartReply(c, "bad_request")
       ELSE /\ LET store == update_command_status(Store, data.id, data.status)
                   command == get_command(store, data.id)
                   ui_clients == _get_ui_clients(Registry, command.run_hash)
               IN  /\ command_history' = store.command_history
                   /\ command_dict' = store.command_dict
                   /\ IF command = NoCommand
                      THEN /\ warnings' = warnings + 1
                           /\ UNCHANGED <<pc, loop_vars, updates>>
                      ELSE /\ updates' = updates + 1
                           /\ UNCHANGED warnings
                           /\ snapshot' = [snapshot EXCEPT ![c] = ui_clients]
                           /\ got' = [got EXCEPT ![c] = {}]
                           /\ IF ui_clients = {}
                              THEN UNCHANGED <<pc, message, todo>>
                              ELSE /\ \E order \in Orders(ui_clients) :
                                        todo' = [todo EXCEPT ![c] = order]
                                   /\ message' =
                                        [message EXCEPT
                                            ![c] = command_update(command, updates')]
                                   /\ pc' = [pc EXCEPT ![c] = "broadcast"]
            /\ UNCHANGED <<registry_vars, client_type, run_hash, peers, reply, open,
                           inbox, delivered>>

\* receive_json returns a frame: the loop body dispatches on client_type.
ReceiveJson(c, data) ==
    /\ Receive(c)
    /\ data \in FramesFrom(peers[c].client_type)
    /\ IF client_type[c] = TRAINING THEN handle_training_message(c, data)
       ELSE IF client_type[c] = UI THEN handle_ui_message(c, data)
       ELSE StartReply(c, "unknown_client_type")
    /\ UNCHANGED client_vars

\* The send loop after the awaited _send_to_client returned, the registry
\* being reg: on to the next registered client, or back to receive_json.
Continue(c, reg) ==
    LET rest == skip_gone(reg, Tail(todo[c]))
    IN  /\ todo' = [todo EXCEPT ![c] = rest]
        /\ IF rest # <<>>
           THEN UNCHANGED <<pc, delivered>>
           ELSE /\ pc' = [pc EXCEPT ![c] = "receive"]
                /\ delivered' =
                    IF pc[c] = "fanout"
                    THEN [delivered EXCEPT ![c] = "True"]
                    ELSE delivered

\* The awaited send_json of a send loop completes.
SendOk(c) ==
    /\ pc[c] \in {"fanout", "broadcast"}
    /\ open[Head(todo[c])]
    /\ ~peers[Head(todo[c])].stalled
    /\ inbox' = [inbox EXCEPT ![Head(todo[c])] = Append(@, message[c])]
    /\ got' = [got EXCEPT ![c] = @ \cup {Head(todo[c])}]
    /\ Continue(c, Registry)
    /\ UNCHANGED <<store_vars, registry_vars, client_type, run_hash, peers, message,
                   reply, open, snapshot, updates, warnings, frames_left>>
    /\ UNCHANGED client_vars

\* The awaited send_json of a send loop raises: _send_to_client disconnects
\* the client and returns.
SendFail(c) ==
    /\ pc[c] \in {"fanout", "broadcast"}
    /\ ~open[Head(todo[c])]
    /\ LET reg == disconnect(Registry, Head(todo[c]))
       IN  /\ _connections' = reg.connections
           /\ _run_connections' = reg.run_connections
           /\ Continue(c, reg)
    /\ UNCHANGED <<store_vars, client_type, run_hash, peers, message, reply, open,
                   inbox, snapshot, got, updates, warnings, frames_left>>
    /\ UNCHANGED client_vars

\* Mutant: the error frame is sent twice.
ReplyOk_twice(c) ==
    /\ pc[c] = "reply"
    /\ open[c]
    /\ inbox' = [inbox EXCEPT ![c] = Append(Append(@, reply[c]), reply[c])]
    /\ reply' = [reply EXCEPT ![c] = NoFrame]
    /\ pc' = [pc EXCEPT ![c] = "receive"]
    /\ UNCHANGED <<store_vars, registry_vars, client_type, run_hash, peers, loop_vars,
                   open, delivered, updates, warnings, frames_left>>
    /\ UNCHANGED client_vars

\* The send_json of an error frame on the handler's own socket completes.
ReplyOk(c) ==
    /\ pc[c] = "reply"
    /\ open[c]
    /\ ~peers[c].stalled
    /\ inbox' = [inbox EXCEPT ![c] = Append(@, reply[c])]
    /\ reply' = [reply EXCEPT ![c] = NoFrame]
    /\ pc' = [pc EXCEPT ![c] = "receive"]
    /\ UNCHANGED <<store_vars, registry_vars, client_type, run_hash, peers, loop_vars,
                   open, delivered, updates, warnings, frames_left>>
    /\ UNCHANGED client_vars

\* Mutant: the handler ends without calling disconnect.
Finally_skipped(c) ==
    /\ pc' = [pc EXCEPT ![c] = "closed"]
    /\ delivered' = [delivered EXCEPT ![c] = None]
    /\ snapshot' = [snapshot EXCEPT ![c] = {}]
    /\ got' = [got EXCEPT ![c] = {}]
    /\ reply' = [reply EXCEPT ![c] = NoFrame]
    /\ UNCHANGED <<store_vars, registry_vars, client_type, run_hash, peers, message,
                   todo, open, inbox, updates, warnings, frames_left>>

\* control_websocket's finally clause.
Finally(c) ==
    /\ LET reg == disconnect(Registry, c)
       IN  /\ _connections' = reg.connections
           /\ _run_connections' = reg.run_connections
    /\ pc' = [pc EXCEPT ![c] = "closed"]
    /\ delivered' = [delivered EXCEPT ![c] = None]
    /\ snapshot' = [snapshot EXCEPT ![c] = {}]
    /\ got' = [got EXCEPT ![c] = {}]
    /\ reply' = [reply EXCEPT ![c] = NoFrame]
    /\ UNCHANGED <<store_vars, client_type, run_hash, peers, message, todo, open,
                   inbox, updates, warnings, frames_left>>

\* The send_json of an error frame raises: the exception leaves the loop.
ReplyFail(c) ==
    /\ pc[c] = "reply"
    /\ ~open[c]
    /\ Finally(c)
    /\ UNCHANGED client_vars

\* receive_json raises WebSocketDisconnect or a transport error.
ReceiveFail(c) ==
    /\ pc[c] = "receive"
    /\ ~open[c]
    /\ Finally(c)
    /\ UNCHANGED client_vars

\* The peer closes its end, or the transport breaks.
PeerClose(c) ==
    /\ pc[c] \notin {"new", "closed"}
    /\ open[c]
    /\ open' = [open EXCEPT ![c] = FALSE]
    /\ inbox' = [inbox EXCEPT ![c] = <<>>]
    /\ UNCHANGED <<store_vars, registry_vars, pc, client_type, run_hash, peers,
                   loop_vars, reply, delivered, updates, warnings, frames_left>>
    /\ UNCHANGED client_vars

Next ==
    \/ \E c \in Clients, run \in Runs, t \in ConnectionType : Connect(c, run, t)
    \/ \E c \in Clients : ReceiveMalformed(c)
    \/ \E c \in Clients, data \in Frames : ReceiveJson(c, data)
    \/ \E c \in Clients : SendOk(c)
    \/ \E c \in Clients : SendFail(c)
    \/ \E c \in Clients : ReplyOk(c)
    \/ \E c \in Clients : ReplyFail(c)
    \/ \E c \in Clients : ReceiveFail(c)
    \/ \E c \in Clients : PeerClose(c)

Spec == Init /\ [][Next]_vars

SpecMixed == InitMixed /\ [][Next]_vars

\* The event loop runs a handler whose awaited send or receive has completed
\* or failed.
LoopFairness ==
    \A c \in {1, 2, 3} :
        /\ WF_vars(SendOk(c))
        /\ WF_vars(SendFail(c))
        /\ WF_vars(ReplyOk(c))
        /\ WF_vars(ReplyFail(c))
        /\ WF_vars(ReceiveFail(c))

SpecStalled == InitStalled /\ [][Next]_vars /\ LoopFairness

\* ------------------------------------------------------------- ControlClient
\* The server-side connection of the ControlClient's socket.
ClientPeer == CHOOSE c \in Clients : peers[c].client_type = TRAINING

\* Frames a server can send on a training socket: the dict of a command
\* (whose 'type' is the command's type tag), a dict lacking the id, and an
\* error frame.
WireFrames ==
    [type : {"command"}, id : Ids, run_hash : {"r1"}, status : {PENDING}]
        \cup {[type |-> "pause", id |-> "c1", run_hash |-> "r1", status |-> PENDING],
              [type |-> "command", id |-> None, run_hash |-> "r1", status |-> PENDING],
              error_frame("bad_request")}

\* _handle_message puts a command on the queue only for a frame whose 'type'
\* is 'command' and that Command.from_dict accepts; every other frame is
\* dropped, an exception being logged.
puts_command(data) == data.type = "command" /\ ~from_dict_raises(data)

_handle_message(queue, data) ==
    IF puts_command(data) THEN Append(queue, from_dict(data)) ELSE queue

\* Mutant: get_nowait takes the newest command.
get_nowait_newest(queue) ==
    <<queue[Len(queue)], SubSeq(queue, 1, Len(queue) - 1)>>

\* Queue.get_nowait on a queue that is not empty: the oldest item, and the rest.
get_nowait(queue) == <<Head(queue), Tail(queue)>>

\* Status updates the training thread sends for a command it has polled.
StatusUpdates ==
    [type : {"status_update"}, id : {polled[i].id : i \in 1 .. Len(polled)},
     run_hash : {"r1"}, status : CommandStatus]

hub_vars == <<server_vars, open, inbox, frames_left>>

\* A ControlClient of run r1 and its server, which is up or down.
ClientPeers ==
    [c \in {1} |-> [run_hash |-> "r1", client_type |-> TRAINING, stalled |-> FALSE]]

InitControlClient ==
    /\ peers = ClientPeers
    /\ frames_left = ClientFrames
    /\ InitState
    /\ InitClient
    /\ trainer = "init"
    /\ reachable \in BOOLEAN

\* A UI tab and the ControlClient of one run, and the hub they connect to,
\* while the training runs (close() is not called).
EndToEndPeers ==
    [c \in {1, 2} |->
        [run_hash |-> "r1", client_type |-> IF c = 1 THEN UI ELSE TRAINING,
         stalled |-> FALSE]]

InitEndToEnd ==
    /\ peers = EndToEndPeers
    /\ frames_left = EndToEndFrames
    /\ InitState
    /\ InitClient
    /\ trainer = "init"
    /\ reachable = TRUE

\* __init__: the listener thread is started, the constructor starts waiting.
StartListener ==
    /\ trainer = "init"
    /\ listener' = "loop"
    /\ trainer' = "init_wait"
    /\ UNCHANGED <<hub_vars, _running, _connected, _ws, _command_queue, waited,
                   received, commands, polled, enqueued, outbox, reachable>>

\* Mutant: the constructor waits for the connection without a timeout.
InitWait_unbounded ==
    /\ trainer = "init_wait"
    /\ _connected
    /\ trainer' = "ready"
    /\ UNCHANGED <<hub_vars, _running, _connected, _ws, _command_queue, listener,
                   waited, received, commands, polled, enqueued, outbox, reachable>>

\* __init__'s wait loop: one test of its condition, and the sleep or the return.
InitWait ==
    /\ trainer = "init_wait"
    /\ IF ~_connected /\ waited < InitTicks
       THEN waited' = waited + 1 /\ UNCHANGED trainer
       ELSE trainer' = "ready" /\ UNCHANGED waited
    /\ UNCHANGED <<hub_vars, _running, _connected, _ws, _command_queue, listener,
                   received, commands, polled, enqueued, outbox, reachable>>

\* Mutant: the outer loop does not test the flag.
ListenerLoop_forever ==
    /\ listener = "loop"
    /\ listener' = "connecting"
    /\ UNCHANGED <<hub_vars, _running, _connected, _ws, _command_queue, trainer,
                   waited, received, commands, polled, enqueued, outbox, reachable>>

\* _run_listener: the test of the outer `while self._running`.
ListenerLoop ==
    /\ listener = "loop"
    /\ listener' = IF _running THEN "connecting" ELSE "exited"
    /\ UNCHANGED <<hub_vars, _running, _connected, _ws, _command_queue, trainer,
                   waited, received, commands, polled, enqueued, outbox, reachable>>

\* connect(...) returned a connection: the listener's side of it.
connected ==
    /\ listener = "connecting"
    /\ reachable
    /\ _ws' = "ws"
    /\ _connected' = TRUE
    /\ listener' = "listening"
    /\ received' = 0
    /\ outbox' = <<>>
    /\ UNCHANGED <<_running, _command_queue, trainer, waited, commands, polled,
                   enqueued>>

\* connect(...) returns a connection to a server that is up.
ListenerConnected ==
    /\ connected
    /\ open' = [open EXCEPT ![ClientPeer] = TRUE]
    /\ inbox' = [inbox EXCEPT ![ClientPeer] = <<>>]
    /\ UNCHANGED <<server_vars, frames_left, reachable>>

\* connect(...) returns a connection to the hub, whose handler has accepted
\* and registered it.  The hub of this scenario takes one connection of the
\* client.
ListenerConnectedToHub ==
    /\ connected
    /\ control_websocket(ClientPeer, "r1", TRAINING)
    /\ reachable' = FALSE
    /\ UNCHANGED lock_vars

\* connect(...) raises: the except clause of the outer loop.
ListenerConnectFailed ==
    /\ listener = "connecting"
    /\ ~reachable
    /\ _connected' = FALSE
    /\ listener' = "backoff"
    /\ UNCHANGED <<hub_vars, _running, _ws, _command_queue, trainer, waited,
                   received, commands, polled, enqueued, outbox, reachable>>

\* The test of the inner `while self._running`; when it fails the outer test
\* fails too (nothing sets _running back) and the thread ends.
ListenerListen ==
    /\ listener = "listening"
    /\ listener' = IF _running THEN "recv" ELSE "exited"
    /\ UNCHANGED <<hub_vars, _running, _connected, _ws, _command_queue, trainer,
                   waited, received, commands, polled, enqueued, outbox, reachable>>

\* recv returns a frame and _handle_message handles it.
ListenerRecv ==
    /\ listener = "recv"
    /\ open[ClientPeer]
    /\ received < Len(inbox[ClientPeer])
    /\ LET data == inbox[ClientPeer][received + 1]
       IN  /\ _command_queue' = _handle_message(_command_queue, data)
           /\ enqueued' = _handle_message(enqueued, data)
    /\ received' = received + 1
    /\ listener' = "listening"
    /\ UNCHANGED <<hub_vars, _running, _connected, _ws, trainer, waited, commands,
                   polled, outbox, reachable>>

\* recv raises TimeoutError: no frame came within its timeout.
ListenerTimeout ==
    /\ listener = "recv"
    /\ open[ClientPeer]
    /\ received >= Len(inbox[ClientPeer])
    /\ listener' = "listening"
    /\ UNCHANGED <<hub_vars, _running, _connected, _ws, _command_queue, trainer,
                   waited, received, commands, polled, enqueued, outbox, reachable>>

\* recv raises on a closed or broken connection: the except clause of the
\* outer loop.
ListenerFault ==
    /\ listener = "recv"
    /\ ~open[ClientPeer]
    /\ _connected' = FALSE
    /\ listener' = "backoff"
    /\ UNCHANGED <<hub_vars, _running, _ws, _command_queue, trainer, waited,
                   received, commands, polled, enqueued, outbox, reachable>>

\* Mutant: the listener gives up after a fault.
ListenerBackoff_gives_up ==
    /\ listener = "backoff"
    /\ listener' = "exited"
    /\ UNCHANGED <<hub_vars, _running, _connected, _ws, _command_queue, trainer,
                   waited, received, commands, polled, enqueued, outbox, reachable>>

\* The sleep of the except clause ends.
ListenerBackoff ==
    /\ listener = "backoff"
    /\ listener' = "loop"
    /\ UNCHANGED <<hub_vars, _running, _connected, _ws, _command_queue, trainer,
                   waited, received, commands, polled, enqueued, outbox, reachable>>

\* poll_commands is called.
poll_commands ==
    /\ trainer = "ready"
    /\ trainer' = "polling"
    /\ commands' = <<>>
    /\ UNCHANGED <<hub_vars, _running, _connected, _ws, _command_queue, listener,
                   waited, received, polled, enqueued, outbox, reachable>>

\* One round of poll_commands' loop: the queue is empty and the list is
\* returned, or get_nowait takes a command.
poll_commands_loop ==
    /\ trainer = "polling"
    /\ IF _command_queue = <<>>
       THEN /\ trainer' = "ready"
            /\ polled' = polled \o commands
            /\ UNCHANGED <<_command_queue, commands>>
       ELSE /\ commands' = Append(commands, get_nowait(_command_queue)[1])
            /\ _command_queue' = get_nowait(_command_queue)[2]
            /\ UNCHANGED <<trainer, polled>>
    /\ UNCHANGED <<hub_vars, _running, _connected, _ws, listener, waited, received,
                   enqueued, outbox, reachable>>

\* _send_status_update, called on the training thread: it returns when there
\* is no connection object, and logs the exception of a failed send.
_send_status_update(data) ==
    /\ trainer = "ready"
    /\ Len(outbox) < MaxOutbox
    /\ outbox' = IF _ws # None /\ open[ClientPeer] THEN Append(outbox, data) ELSE outbox
    /\ UNCHANGED <<hub_vars, _running, _connected, _ws, _command_queue, listener,
                   trainer, waited, received, commands, polled, enqueued, reachable>>

\* close(): the flag, the close of the connection object if there is one.
close ==
    /\ trainer = "ready"
    /\ _running' = FALSE
    /\ open' = IF _ws # None THEN [open EXCEPT ![ClientPeer] = FALSE] ELSE open
    /\ trainer' = "joining"
    /\ UNCHANGED <<server_vars, inbox, frames_left, _connected, _ws, _command_queue,
                   listener, waited, received, commands, polled, enqueued, outbox,
                   reachable>>

\* close(): join returns, the listener having ended or the timeout having passed.
join ==
    /\ trainer = "joining"
    /\ trainer' = "closed"
    /\ UNCHANGED <<hub_vars, _running, _connected, _ws, _command_queue, listener,
                   waited, received, commands, polled, enqueued, outbox, reachable>>

\* The server sends a frame on the client's connection.
ServerSends(data) ==
    /\ open[ClientPeer]
    /\ frames_left > 0
    /\ frames_left' = frames_left - 1
    /\ inbox' = [inbox EXCEPT ![ClientPeer] = Append(@, data)]
    /\ UNCHANGED <<server_vars, open, client_vars>>

\* The server closes the client's connection, or the transport breaks.
ServerCloses ==
    /\ open[ClientPeer]
    /\ open' = [open EXCEPT ![ClientPeer] = FALSE]
    /\ inbox' = [inbox EXCEPT ![ClientPeer] = <<>>]
    /\ UNCHANGED <<server_vars, frames_left, client_vars>>

\* The server goes down, or comes up.
ServerTurns ==
    /\ reachable' = ~reachable
    /\ UNCHANGED <<hub_vars, _running, _connected, _ws, _command_queue, listener,
                   trainer, waited, received, commands, polled, enqueued, outbox>>

\* The hub's handler of the client's connection receives the frame the
\* client sent.
ReceiveFromClient ==
    /\ outbox # <<>>
    /\ Receive(ClientPeer)
    /\ handle_training_message(ClientPeer, Head(outbox))
    /\ outbox' = Tail(outbox)
    /\ UNCHANGED <<_running, _connected, _ws, _command_queue, listener, trainer,
                   waited, received, commands, polled, enqueued, reachable>>
    /\ UNCHANGED lock_vars

\* The listener thread's steps.
Listener ==
    \/ ListenerLoop
    \/ ListenerConnected
    \/ ListenerConnectFailed
    \/ ListenerListen
    \/ ListenerRecv
    \/ ListenerTimeout
    \/ ListenerFault
    \/ ListenerBackoff

\* The steps of the training thread that a call in progress takes by itself.
Trainer == StartListener \/ InitWait \/ poll_commands_loop \/ join

NextControlClient ==
    \/ StartListener
    \/ InitWait
    \/ ListenerLoop
    \/ ListenerConnected
    \/ ListenerConnectFailed
    \/ ListenerListen
    \/ ListenerRecv
    \/ ListenerTimeout
    \/ ListenerFault
    \/ ListenerBackoff
    \/ poll_commands
    \/ poll_commands_loop
    \/ close
    \/ join
    \/ \E data \in WireFrames : ServerSends(data)
    \/ ServerCloses
    \/ ServerTurns

\* The threads of the process are scheduled: a thread that can take a step
\* takes one.
SpecControlClient ==
    /\ InitControlClient
    /\ [][NextControlClient]_vars
    /\ WF_vars(Listener)
    /\ WF_vars(Trainer)

NextEndToEnd ==
    \/ \E c \in Clients \ {ClientPeer}, run \in Runs, t \in ConnectionType :
            Connect(c, run, t)
    \/ \E c \in Clients \ {ClientPeer} : ReceiveMalformed(c)
    \/ \E c \in Clients \ {ClientPeer}, data \in Frames : ReceiveJson(c, data)
    \/ ReceiveFromClient
    \/ \E c \in Clients : SendOk(c)
    \/ \E c \in Clients : SendFail(c)
    \/ \E c \in Clients : ReplyOk(c)
    \/ \E c \in Clients : ReplyFail(c)
    \/ \E c \in Clients : ReceiveFail(c)
    \/ \E c \in Clients : PeerClose(c)
    \/ StartListener
    \/ InitWait
    \/ ListenerLoop
    \/ ListenerConnectedToHub
    \/ ListenerConnectFailed
    \/ ListenerListen
    \/ ListenerRecv
    \/ ListenerTimeout
    \/ ListenerFault
    \/ ListenerBackoff
    \/ poll_commands
    \/ poll_commands_loop
    \/ \E data \in StatusUpdates : _send_status_update(data)

SpecEndToEnd == InitEndToEnd /\ [][NextEndToEnd]_vars

\* ------------------------------------------------------------- helpers
Range(seq) == {seq[i] : i \in 1 .. Len(seq)}

IsCommandFrame(f) == f.type \notin {"command_update", "error", None}

IsCommandUpdate(f) == f.type = "command_update"

\* A UI handler c handles the well-formed command frame data in this step.
IssuesCommand(c, data) ==
    /\ ReceiveJson(c, data)
    /\ client_type[c] = UI
    /\ data.type = "command"
    /\ ~from_dict_raises(data)

\* A training handler c handles the status update data in this step.
ReportsStatus(c, data) ==
    /\ ReceiveJson(c, data)
    /\ client_type[c] = TRAINING
    /\ data.status \in CommandStatus

\* ------------------------------------------------------------- C1
\* C1: persistence precedes transmission.  In every reachable state, a
\* command frame that a handler is sending, or that a training socket has
\* received, is the frame of a command already appended to the history, and
\* get_command of its id returns a command of that id.
C1_StoredBeforeSent ==
    LET Stored(f) ==
            /\ get_command(Store, f.id).id = f.id
            /\ \E k \in 1 .. Len(command_history) :
                    /\ command_history[k].id = f.id
                    /\ command_history[k].run_hash = f.run_hash
                    /\ command_history[k].type = f.type
    IN  /\ \A c \in Clients : pc[c] = "fanout" => Stored(message[c])
        /\ \A t \in Clients : \A f \in Range(inbox[t]) :
                IsCommandFrame(f) => Stored(f)

\* A training socket has received a command frame.
C1_Witness ==
    \E t \in Clients :
        /\ peers[t].client_type = TRAINING
        /\ \E f \in Range(inbox[t]) : IsCommandFrame(f) /\ f.id \in DOMAIN command_dict

\* ------------------------------------------------------------- C2
\* No training-type connection is registered for run.
NoTrainingSocket(run) ==
    \A t \in DOMAIN _connections :
        ~(/\ _connections[t].connection_type = TRAINING
          /\ _connections[t].run_hash = run)

\* C2: when a UI handler passes a command to send_command_to_training while
\* no training-type socket is registered for its run, the call returns False
\* without sending anything, and right after it get_command of the command's
\* id returns that command with status pending.
C2_NoTrainingSocketKeepsPending ==
    [][\A c \in Clients, data \in UIFrames :
          (IssuesCommand(c, data) /\ NoTrainingSocket(run_hash[c]))
              => /\ delivered'[c] = "False"
                 /\ pc'[c] = "receive"
                 /\ inbox' = inbox
                 /\ get_command(Store', data.id) =
                        [id |-> data.id, run_hash |-> data.run_hash,
                         type |-> data.type, status |-> PENDING]]_vars

\* A call returned False and the command it was given is in the store, pending,
\* while a UI tab is the only connection of the run.
C2_Witness ==
    \E c \in Clients :
        /\ delivered[c] = "False"
        /\ NoTrainingSocket(run_hash[c])
        /\ Len(command_history) = 1
        /\ command_history[1].status = PENDING
        /\ get_command(Store, command_history[1].id) = command_history[1]

\* ------------------------------------------------------------- C3
\* C3: a True result of send_command_to_training means that the send of the
\* command frame completed on at least one training socket.
C3_TrueMeansSent ==
    \A c \in Clients : delivered[c] = "True" => got[c] # {}

\* ------------------------------------------------------------- C4
\* C4 (a): when a fan-out has returned, every training socket it snapshotted
\* whose transport is up has received the frame, whatever happened to the
\* sends on the other sockets.
C4_Complete ==
    \A c \in Clients :
        (pc[c] = "receive" /\ delivered[c] = "True")
            => \A t \in snapshot[c] :
                    open[t] => (t \in got[c] /\ message[c] \in Range(inbox[t]))

\* C4 (b): a failed send removes the socket it was made on from the global
\* map and from its run's set, and removes no other socket.
C4_Isolated ==
    \A c \in Clients :
        SendFail(c)
            => /\ DOMAIN _connections' = DOMAIN _connections \ {Head(todo[c])}
               /\ \A r \in Runs :
                    _run_connections'[r] = _run_connections[r] \ {Head(todo[c])}
               /\ \A t \in DOMAIN _connections' : _connections'[t] = _connections[t]

\* C4: fan-out is complete and isolate-on-failure.
C4_FanoutIsolatesFailure == []C4_Complete /\ [][C4_Isolated]_vars

\* A fan-out over two training sockets has returned: the send failed on one,
\* which is gone from the registry, and the other has the frame.
C4_Witness ==
    \E c \in Clients : \E t1, t2 \in snapshot[c] :
        /\ pc[c] = "receive"
        /\ delivered[c] = "True"
        /\ t1 # t2
        /\ t1 \notin got[c]
        /\ t1 \notin DOMAIN _connections
        /\ pc[t1] # "closed"
        /\ t2 \in got[c]
        /\ message[c] \in Range(inbox[t2])

\* ------------------------------------------------------------- C5
\* C5: add_command of a command whose id is already in the store leaves the
\* history and the id index unchanged.
C5_DuplicateIdRejected ==
    [][\A c \in Clients, data \in UIFrames :
          (IssuesCommand(c, data) /\ data.id \in DOMAIN command_dict)
              => UNCHANGED <<command_history, command_dict>>]_vars

\* ------------------------------------------------------------- C6
\* C6: the id index agrees with the history: every indexed id maps to the
\* position of a record carrying that id, every record is reachable through
\* the index, and no id occurs in two records.
C6_IndexAgreesWithHistory ==
    /\ \A id \in DOMAIN command_dict :
            /\ command_dict[id] \in 1 .. Len(command_history)
            /\ command_history[command_dict[id]].id = id
    /\ \A k \in 1 .. Len(command_history) :
            /\ command_history[k].id \in DOMAIN command_dict
            /\ command_dict[command_history[k].id] = k
    /\ \A j, k \in 1 .. Len(command_history) :
            command_history[j].id = command_history[k].id => j = k

\* ------------------------------------------------------------- C7
\* C7: once get_command shows a command completed or failed, no status update
\* changes the status get_command shows for it.
C7_TerminalStatusIsFinal ==
    [][\A c \in Clients, data \in TrainingFrames :
          ReportsStatus(c, data)
              => \A id \in DOMAIN command_dict :
                    get_command(Store, id).status \in {COMPLETED, FAILED}
                        => get_command(Store', id).status =
                                get_command(Store, id).status]_vars

\* ------------------------------------------------------------- C8
\* C8: a status update for an id that is not in the store raises nothing (the
\* handler goes back to receive_json without an error reply), leaves the
\* history and the index as they were, and starts no send to any socket.
C8_UnknownIdIsNoOp ==
    [][\A c \in Clients, data \in TrainingFrames :
          (ReportsStatus(c, data) /\ data.id \notin DOMAIN command_dict)
              => /\ UNCHANGED <<command_history, command_dict>>
                 /\ pc'[c] = "receive"
                 /\ UNCHANGED <<inbox, message, todo, _connections,
                                _run_connections, updates>>]_vars

\* The store holds a command, a UI tab is connected, and a status update for
\* an unknown id has been dropped.
C8_Witness ==
    /\ warnings > 0
    /\ command_history # <<>>
    /\ \E u \in DOMAIN _connections : _connections[u].connection_type = UI /\ open[u]

\* ------------------------------------------------------------- C9
\* C9 (a): a command_update frame is received only by UI-type sockets of the
\* run of the command it carries.
C9_OnlyUIOfTheRun ==
    \A t \in Clients : \A f \in Range(inbox[t]) :
        IsCommandUpdate(f)
            => /\ peers[t].client_type = UI
               /\ peers[t].run_hash = f.data.run_hash

\* C9 (b): a status update for a known id first updates the store, then
\* starts sending a command_update frame that carries the updated record to
\* every UI-type socket registered for the command's run.
C9_UpdateThenBroadcast ==
    \A c \in Clients, data \in TrainingFrames :
        (ReportsStatus(c, data) /\ data.id \in DOMAIN command_dict)
            => LET command == get_command(Store', data.id)
                   targets ==
                       {t \in DOMAIN _connections :
                           /\ peers[t].client_type = UI
                           /\ peers[t].run_hash = command.run_hash}
               IN  /\ command.id = data.id
                   /\ command.status = data.status
                   /\ snapshot'[c] = targets
                   /\ targets # {}
                        => /\ pc'[c] = "broadcast"
                           /\ Range(todo'[c]) = targets
                           /\ IsCommandUpdate(message'[c])
                           /\ message'[c].data = to_dict(command)

\* C9 (c): when a broadcast has returned, every UI socket it snapshotted
\* whose transport is up has received the frame.
C9_Complete ==
    \A c \in Clients :
        (pc[c] = "receive" /\ peers[c].client_type = TRAINING)
            => \A t \in snapshot[c] :
                    open[t] => (t \in got[c] /\ message[c] \in Range(inbox[t]))

\* C9: a status update for a known command reaches the UI sockets of the
\* command's run and nobody else.
C9_BroadcastToUIOfRun ==
    /\ [](C9_OnlyUIOfTheRun /\ C9_Complete)
    /\ [][C9_UpdateThenBroadcast]_vars

\* A UI socket of the command's run has the command_update frame while a
\* training socket, an API socket and a UI socket of another run are
\* registered and up.
C9_Witness ==
    \E u \in Clients : \E f \in Range(inbox[u]) :
        /\ IsCommandUpdate(f)
        /\ \E t, a, o \in DOMAIN _connections :
            /\ open[t] /\ peers[t].client_type = TRAINING
            /\ open[a] /\ peers[a].client_type = API
            /\ open[o] /\ peers[o].client_type = UI
            /\ peers[o].run_hash # f.data.run_hash

\* ------------------------------------------------------------- C10
\* C10: every UI socket receives the command_update frames of one run in the
\* order in which the updates they report were applied to the store: of two
\* frames of a run that differ, the one received first reports the update
\* applied first.
C10_BroadcastsInStoreOrder ==
    \A t \in Clients : \A i, j \in 1 .. Len(inbox[t]) :
        (/\ i < j
         /\ IsCommandUpdate(inbox[t][i])
         /\ IsCommandUpdate(inbox[t][j])
         /\ inbox[t][i].data.run_hash = inbox[t][j].data.run_hash
         /\ inbox[t][i].data # inbox[t][j].data)
            => inbox[t][i].seq < inbox[t][j].seq

\* ------------------------------------------------------------- C11
\* C11: the registry is consistent in every reachable state: every client id
\* of the global map is in the set of its own run and in the set of no other
\* run, and every member of a per-run set is a key of the global map whose
\* connection belongs to that run.  Client ids are uuid4 values: every
\* connection has an id of its own.
C11_RegistryConsistent ==
    /\ \A c \in DOMAIN _connections :
            /\ _connections[c].run_hash \in DOMAIN _run_connections
            /\ \A r \in DOMAIN _run_connections :
                    c \in _run_connections[r] <=> r = _connections[c].run_hash
    /\ \A r \in DOMAIN _run_connections : \A c \in _run_connections[r] :
            /\ c \in DOMAIN _connections
            /\ _connections[c].run_hash = r
    /\ \A c \in DOMAIN _connections :
            /\ _connections[c].run_hash = peers[c].run_hash
            /\ _connections[c].connection_type = peers[c].client_type

\* Connections of two runs are registered, two of them for the same run, after
\* a failed send has removed a connection whose handler is still running.
C11_Witness ==
    /\ \E c \in Clients : c \notin DOMAIN _connections /\ pc[c] \notin {"new", "closed"}
    /\ \E r1, r2 \in DOMAIN _run_connections :
            /\ r1 # r2
            /\ Cardinality(_run_connections[r1]) >= 2
            /\ _run_connections[r2] # {}

\* ------------------------------------------------------------- C12
\* The client id is in neither index of the registry reg.
UnregisteredIn(reg, c) ==
    /\ c \notin DOMAIN reg.connections
    /\ \A r \in DOMAIN reg.run_connections : c \notin reg.run_connections[r]

\* C12: no stale entry survives a connection.  A handler that has terminated
\* has no entry in the global map or in any per-run set, and every step that
\* runs disconnect for an id (the termination path of the message loop after
\* a peer close or a transport error, or a failed send) leaves that id in
\* neither index.
C12_NoStaleEntry ==
    /\ [](\A c \in Clients : pc[c] = "closed" => UnregisteredIn(Registry, c))
    /\ [][\A c \in Clients :
            /\ (ReceiveFail(c) \/ ReplyFail(c)) => (pc'[c] = "closed" /\ UnregisteredIn(Registry', c))
            /\ SendFail(c) => UnregisteredIn(Registry', Head(todo[c]))]_vars

\* A handler has terminated right after connect (its peer has received
\* nothing it could have replied to), another one is still registered.
C12_Witness ==
    \E c, d \in Clients :
        /\ pc[c] = "closed"
        /\ frames_left = MixedFrames
        /\ d \in DOMAIN _connections
        /\ peers[d].run_hash = peers[c].run_hash

\* ------------------------------------------------------------- C13
\* C13: disconnect is idempotent.  For every client id, registered or not,
\* a second disconnect changes nothing, a disconnect of an id that is not
\* registered leaves the global map and every per-run set as they were, and
\* the steps of the program that call disconnect for an id already removed
\* leave the registry unchanged and go on without an error.
C13_DisconnectIdempotent ==
    /\ [](\A c \in Clients :
            /\ disconnect(disconnect(Registry, c), c) = disconnect(Registry, c)
            /\ c \notin DOMAIN _connections => disconnect(Registry, c) = Registry)
    /\ [][\A c \in Clients :
            /\ ((ReceiveFail(c) \/ ReplyFail(c)) /\ c \notin DOMAIN _connections)
                    => (UNCHANGED registry_vars /\ pc'[c] = "closed")
            /\ (SendFail(c) /\ Head(todo[c]) \notin DOMAIN _connections)
                    => (UNCHANGED registry_vars /\ pc'[c] # "closed")]_vars

\* disconnect has run twice for one id: the only socket of a fan-out failed
\* its send, and the handler of that socket has terminated.
C13_Witness ==
    \E d, c \in Clients :
        /\ snapshot[d] = {c}
        /\ got[d] = {}
        /\ pc[d] = "receive"
        /\ delivered[d] = "True"
        /\ pc[c] = "closed"
        /\ DOMAIN _connections # {}

\* ------------------------------------------------------------- C14
\* C14: a frame that is no JSON makes the handler send one invalid_json error
\* frame on its own socket and nothing else: the store and the registry are
\* untouched, no other socket receives anything, and when the send has
\* completed the handler is back in receive_json, where the next frame is
\* handled as any other.
C14_MalformedFrameAnswered ==
    [][\A c \in Clients :
        /\ ReceiveMalformed(c)
            => /\ pc'[c] = "reply"
               /\ reply'[c] = error_frame("invalid_json")
               /\ UNCHANGED <<command_history, command_dict, _connections,
                              _run_connections, inbox, open, message, todo>>
        /\ ReplyOk(c)
            => /\ inbox'[c] = Append(inbox[c], reply[c])
               /\ \A d \in Clients \ {c} : inbox'[d] = inbox[d]
               /\ pc'[c] = "receive"
               /\ open'[c]
               /\ UNCHANGED <<command_history, command_dict, _connections,
                              _run_connections, message, todo>>]_vars

\* A UI socket that was sent exactly one invalid_json error frame is still
\* registered, and the command it sent afterwards is stored and on its way to
\* a training socket.
C14_Witness ==
    \E c \in Clients :
        /\ inbox[c] = <<error_frame("invalid_json")>>
        /\ c \in DOMAIN _connections
        /\ pc[c] = "fanout"
        /\ message[c].id \in DOMAIN command_dict

\* ------------------------------------------------------------- C15
\* The frame lacks a field its connection type requires: id or status on a
\* training socket, id or run_hash of a command on a UI socket.
LacksRequiredField(c, data) ==
    \/ client_type[c] = TRAINING /\ (data.id = None \/ data.status = None)
    \/ /\ client_type[c] = UI
       /\ data.type = "command"
       /\ (data.id = None \/ data.run_hash = None)

\* C15: a frame that lacks a required field is answered with an error frame
\* on the same socket, changes nothing in the store, and leaves the socket
\* open and its handler running.
C15_MissingFieldAnswered ==
    [][\A c \in Clients, data \in Frames :
          (ReceiveJson(c, data) /\ LacksRequiredField(c, data))
              => /\ pc'[c] = "reply"
                 /\ reply'[c].type = "error"
                 /\ UNCHANGED <<command_history, command_dict, open>>]_vars


\* ------------------------------------------------------------- C16
\* The ControlClient's connection is registered with the hub and up.
ClientConnected == ClientPeer \in DOMAIN _connections /\ open[ClientPeer]

\* C16 (a): a frame of a UI socket that carries a command (an id, the run of
\* the socket, and a type tag, whatever it is) makes the hub store the command
\* and send it to the connected training client.
C16_CommandForwarded ==
    \A u \in Clients \ {ClientPeer}, data \in UIFrames :
        (/\ ReceiveJson(u, data)
         /\ client_type[u] = UI
         /\ data.id # None
         /\ data.run_hash = run_hash[u]
         /\ ClientConnected)
            => /\ get_command(Store', data.id).id = data.id
               /\ pc'[u] = "fanout"
               /\ message'[u].id = data.id
               /\ ClientPeer \in Range(todo'[u])

\* C16 (b): the commands the listener has put on the queue are, in order,
\* the command frames it has received on its connection.
C16_ReceivedEnqueued ==
    (open[ClientPeer] /\ _ws # None /\ received <= Len(inbox[ClientPeer]))
        => LET frames == SubSeq(inbox[ClientPeer], 1, received)
           IN  /\ Len(enqueued) = Len(frames)
               /\ \A i \in 1 .. Len(frames) : enqueued[i].id = frames[i].id

\* C16 (c): a status update the training side has sent for a stored command
\* makes the hub send a command_update frame showing that status to the UI
\* sockets of the run.
C16_StatusShown ==
    (/\ ReceiveFromClient
     /\ Head(outbox).status \in CommandStatus
     /\ Head(outbox).id \in DOMAIN command_dict)
        => \A u \in Clients :
                (u \in DOMAIN _connections /\ peers[u].client_type = UI)
                    => /\ pc'[ClientPeer] = "broadcast"
                       /\ u \in Range(todo'[ClientPeer])
                       /\ message'[ClientPeer].type = "command_update"
                       /\ message'[ClientPeer].data.id = Head(outbox).id
                       /\ message'[ClientPeer].data.status = Head(outbox).status

\* C16: end-to-end delivery of a command from a UI socket to the training
\* client's queue, and of the status the training side reports back to the
\* UI sockets.
C16_EndToEnd ==
    /\ []C16_ReceivedEnqueued
    /\ [][C16_CommandForwarded /\ C16_StatusShown]_vars

\* ------------------------------------------------------------- C17
\* C17 (a): every command the listener has put on the queue has been
\* returned by one poll_commands call, is in the list of the call in
\* progress, or is still on the queue, in the order of arrival and once.
C17_NothingLost ==
    IF trainer = "polling"
    THEN polled \o commands \o _command_queue = enqueued
    ELSE polled \o _command_queue = enqueued

\* C17 (b): a poll_commands call in progress can always take its next step.
C17_NeverBlocks == trainer = "polling" => ENABLED poll_commands_loop

\* C17 (c): the steps of poll_commands do nothing on the socket, and a call
\* that finds the queue empty returns at once with what it has taken, the
\* empty list if that is nothing.
C17_NoSocketOperation ==
    /\ (poll_commands \/ poll_commands_loop)
            => UNCHANGED <<open, inbox, outbox, received, _ws, _connected, listener>>
    /\ (poll_commands_loop /\ _command_queue = <<>>)
            => /\ trainer' = "ready"
               /\ commands' = commands
               /\ polled' = polled \o commands

\* C17: poll_commands never blocks, does nothing on the socket and returns
\* the commands in arrival order, each of them once.
C17_PollCommands ==
    /\ [](C17_NothingLost /\ C17_NeverBlocks)
    /\ [][C17_NoSocketOperation]_vars

\* A poll_commands call has returned two different commands at once while
\* the listener, its connection lost, waits to reconnect.
C17_Witness ==
    /\ trainer = "ready"
    /\ Len(commands) = 2
    /\ commands[1] # commands[2]
    /\ polled = commands
    /\ enqueued = polled
    /\ listener = "backoff"
    /\ ~_connected

\* ------------------------------------------------------------- C18
\* C18 (a): on a connection-level fault (connect raises, or recv raises on a
\* closed or broken connection) the listener marks the client disconnected
\* and starts its backoff sleep.
C18_FaultMarksDisconnected ==
    (ListenerFault \/ ListenerConnectFailed)
        => (~_connected' /\ listener' = "backoff")

\* C18: after every fault the listener marks the client disconnected, sleeps
\* and tries to connect again, as long as close() has not been called; so a
\* client that is never closed and whose server is from some time on
\* reachable is connected again and again, whatever faults occur.
C18_Reconnects ==
    /\ [][C18_FaultMarksDisconnected]_vars
    /\ (listener = "backoff") ~> (listener = "connecting" \/ ~_running)
    /\ ([]_running /\ <>[]reachable) => []<>_connected

\* The client is connected again after its first connection, on which it
\* received a command, was lost.
C18_Witness ==
    /\ _connected
    /\ open[ClientPeer]
    /\ listener = "recv"
    /\ received = 0
    /\ enqueued # <<>>
    /\ _running

\* ------------------------------------------------------------- C19
\* C19 (a): the constructor starts the listener thread once, and when it
\* returns the client is connected or the timeout has passed, and the
\* listener thread is running.
C19_ReturnsAfterTimeout ==
    /\ StartListener => (listener = "unstarted" /\ listener' = "loop")
    /\ listener # "unstarted" => listener' # "unstarted"
    /\ (InitWait /\ trainer' = "ready")
            => /\ _connected \/ waited = InitTicks
               /\ listener \notin {"unstarted", "exited"}

\* C19: the constructor returns whether or not the server is reachable: it
\* starts one listener thread, sleeps at most the number of times that make
\* up its timeout, returns, and leaves the listener thread retrying.
C19_ConstructorReturns ==
    /\ [](waited <= InitTicks)
    /\ [][C19_ReturnsAfterTimeout]_vars
    /\ [](_running => listener # "exited")
    /\ <>(trainer = "ready")

\* The constructor has returned after its whole timeout without a connection
\* ever made, the server being down, and the listener is in its backoff.
C19_Witness ==
    /\ trainer = "ready"
    /\ waited = InitTicks
    /\ ~_connected
    /\ _ws = None
    /\ ~reachable
    /\ listener = "backoff"

\* ------------------------------------------------------------- C20
\* C20 (a): the listener starts a connection attempt only from a test of the
\* flag that found it unset, and a listener thread that has ended stays so.
C20_NoAttemptAfterFlag ==
    /\ (listener # "connecting" /\ listener' = "connecting")
            => (_running /\ listener = "loop")
    /\ listener = "exited" => listener' = "exited"
    /\ ~_running => ~_running'

\* C20: close() sets the flag and returns when its join does, which is at the
\* latest when the join's timeout passes, whatever the listener is doing;
\* once the flag is set the listener thread ends, and it starts no
\* connection attempt after it has seen the flag.
C20_CloseReturns ==
    /\ [][C20_NoAttemptAfterFlag]_vars
    /\ [](trainer = "joining" => ENABLED join)
    /\ (trainer = "joining") ~> (trainer = "closed")
    /\ (~_running) ~> (listener = "exited")

\* close() has returned while the listener is still in the connection
\* attempt it had started before.
C20_Witness ==
    /\ trainer = "closed"
    /\ ~_running
    /\ listener = "connecting"

\* ------------------------------------------------------------- C21
\* C21 (a): a training socket receives a command frame only from a
\* send_command_to_training call that snapshotted it when the command was
\* stored and has not yet sent to it; everything else a socket receives is
\* a command_update or an error frame.
C21_SentOncePerCall ==
    \A t \in Clients :
        inbox'[t] # inbox[t] /\ open'[t]
            => \/ \E c \in Clients :
                    /\ SendOk(c)
                    /\ Head(todo[c]) = t
                    /\ t \in snapshot[c]
                    /\ t \notin got[c]
                    /\ pc[c] = "fanout" <=> IsCommandFrame(message[c])
               \/ ReplyOk(t)

\* C21 (b): the sockets a call sends to are the training sockets that were
\* registered for the run when the call stored the command, and the set does
\* not grow while the call runs: a socket that connects later is not sent
\* the command.
C21_SnapshotAtStore ==
    /\ \A c \in Clients, data \in UIFrames :
            IssuesCommand(c, data)
                => /\ snapshot'[c] = _get_training_clients(Registry, run_hash[c])
                   /\ Range(todo'[c]) \subseteq snapshot'[c]
    /\ \A c \in Clients :
            (pc[c] = "fanout" /\ pc'[c] = "fanout")
                => /\ snapshot'[c] = snapshot[c]
                   /\ Range(todo'[c]) \subseteq Range(todo[c])
                   /\ message'[c] = message[c]

\* C21: delivery is at most once per training socket and call, and only to
\* the sockets connected when the command was issued.
C21_AtMostOnce == [][C21_SentOncePerCall /\ C21_SnapshotAtStore]_vars

\* A command was issued while its run had no training socket; a training
\* socket of the run has connected since and has received nothing.
C21_Witness ==
    \E u, t \in Clients :
        /\ delivered[u] = "False"
        /\ pc[u] = "receive"
        /\ command_history # <<>>
        /\ command_history[1].run_hash = peers[t].run_hash
        /\ t \in DOMAIN _connections
        /\ peers[t].client_type = TRAINING
        /\ open[t]
        /\ inbox[t] = <<>>
        /\ frames_left = 0

\* ------------------------------------------------------------- C22
\* C22: the operations the training thread runs (poll_commands, the
\* acknowledgement of polled commands, the sending of a status update) do
\* nothing on the socket: they send no frame, take none, and neither open
\* nor close the connection.
C22_TrainingThreadOffSocket ==
    [][(\/ poll_commands
        \/ poll_commands_loop
        \/ \E data \in StatusUpdates : _send_status_update(data))
            => UNCHANGED <<outbox, received, open, inbox, _ws>>]_vars

\* ------------------------------------------------------------- C23
\* C23: a peer that does not read cannot stall delivery to others: every
\* socket that a running send loop has still to serve, whose transport is up
\* and whose peer reads, receives the loop's frame unless its own transport
\* goes down, even if the send to another socket of the loop never completes.
C23_StalledPeerStallsNobody ==
    \A c \in {1, 2, 3}, t \in {1, 2, 3} :
        (/\ pc[c] \in {"fanout", "broadcast"}
         /\ t \in Range(todo[c])
         /\ open[t]
         /\ ~peers[t].stalled)
            ~> (message[c] \in Range(inbox[t]) \/ ~open[t])

\* ------------------------------------------------------------- locks
\* The handlers at the granularity of the two locks.  `at` is the statement
\* a handler stands at: awaiting a network operation ("accept", "receive",
\* "send", "reply"), waiting for the manager's asyncio.Lock ("..._lock"),
\* inside one of its `async with self._lock` blocks ("..._cs"), or inside a
\* synchronous CommandStore method that holds the store's RLock ("add_cs",
\* "update_cs", "get_cs").  The data the handlers work on is left to the
\* specifications above; here a branch on data is a choice of the successor.
LockClients == 3

\* A UI tab, a training worker and an api connection of one run.
LockPeers ==
    [c \in 1 .. LockClients |->
        [run_hash |-> "r1",
         client_type |-> IF c = 1 THEN UI ELSE IF c = 2 THEN TRAINING ELSE API,
         stalled |-> FALSE]]

InitLocks == peers = LockPeers /\ frames_left = 0 /\ InitState /\ NoClient

NetworkAwait == {"accept", "receive", "send", "reply"}

lock_frame == UNCHANGED <<handler_vars, open, inbox, frames_left, thread_vars>>

\* connect: websocket.accept() returns, the handler goes for the lock.
AcceptOk(c) ==
    /\ at[c] = "accept"
    /\ at' = [at EXCEPT ![c] = "connect_lock"]
    /\ UNCHANGED <<_lock, store_lock>>
    /\ lock_frame

\* connect is called outside the handler's try: a failed accept ends it.
AcceptDown(c) ==
    /\ at[c] = "accept"
    /\ at' = [at EXCEPT ![c] = "closed"]
    /\ UNCHANGED <<_lock, store_lock>>
    /\ lock_frame

\* `async with self._lock:` is entered when no coroutine holds the lock.
AcquireLock(c) ==
    /\ at[c] \in {"connect_lock", "clients_lock", "lookup_lock",
                  "disconnect_lock", "finally_lock"}
    /\ _lock = {}
    /\ _lock' = {c}
    /\ at' = [at EXCEPT ![c] =
                CASE at[c] = "connect_lock" -> "connect_cs"
                  [] at[c] = "clients_lock" -> "clients_cs"
                  [] at[c] = "lookup_lock" -> "lookup_cs"
                  [] at[c] = "disconnect_lock" -> "disconnect_cs"
                  [] at[c] = "finally_lock" -> "finally_cs"]
    /\ UNCHANGED store_lock
    /\ lock_frame

\* The send loops of send_command_to_training and _broadcast_command_update:
\* the next client's _send_to_client, or back to receive_json after the last.
next_send == {"lookup_lock", "receive"}

\* connect's block registers the connection; the handler then receives.
connect_locked(c) ==
    /\ at[c] = "connect_cs"
    /\ c \in _lock
    /\ _lock' = _lock \ {c}
    /\ at' = [at EXCEPT ![c] = "receive"]
    /\ UNCHANGED store_lock
    /\ lock_frame

\* _get_training_clients, _get_ui_clients: the list is built inside the block.
_get_clients_locked(c) ==
    /\ at[c] = "clients_cs"
    /\ c \in _lock
    /\ _lock' = _lock \ {c}
    /\ \E successor \in next_send : at' = [at EXCEPT ![c] = successor]
    /\ UNCHANGED store_lock
    /\ lock_frame

_send_to_client_locked_sending(c) ==
    /\ at[c] = "lookup_cs"
    /\ c \in _lock
    /\ \E successor \in {"send"} \cup next_send :
            /\ at' = [at EXCEPT ![c] = successor]
            /\ _lock' = IF successor = "send" THEN _lock ELSE _lock \ {c}
    /\ UNCHANGED store_lock
    /\ lock_frame

\* _send_to_client: the connection is looked up inside the block; send_json
\* is awaited after it, or nothing is sent when the connection is gone.
_send_to_client_locked(c) ==
    /\ at[c] = "lookup_cs"
    /\ c \in _lock
    /\ _lock' = _lock \ {c}
    /\ \E successor \in {"send"} \cup next_send :
            at' = [at EXCEPT ![c] = successor]
    /\ UNCHANGED store_lock
    /\ lock_frame

\* disconnect: called by _send_to_client after a failed send (the loop goes
\* on) and by the handler's finally (the handler ends).
disconnect_locked(c) ==
    /\ at[c] \in {"disconnect_cs", "finally_cs"}
    /\ c \in _lock
    /\ _lock' = _lock \ {c}
    /\ \E successor \in (IF at[c] = "finally_cs" THEN {"closed"} ELSE next_send) :
            at' = [at EXCEPT ![c] = successor]
    /\ UNCHANGED store_lock
    /\ lock_frame

\* receive_json returns a frame of a UI socket: a command frame is stored
\* (add_command takes the store's lock), another type is ignored, and a frame
\* that is no JSON or that from_dict rejects is answered with an error frame.
ReceiveUI(c) ==
    /\ at[c] = "receive"
    /\ peers[c].client_type = UI
    /\ \/ /\ store_lock = {}
          /\ store_lock' = {c}
          /\ at' = [at EXCEPT ![c] = "add_cs"]
       \/ /\ at' = [at EXCEPT ![c] = "reply"]
          /\ UNCHANGED store_lock
       \/ UNCHANGED <<at, store_lock>>
    /\ UNCHANGED _lock
    /\ lock_frame

\* receive_json returns a frame of a training socket: update_command_status
\* takes the store's lock, unless CommandStatus(...) raised before the call.
ReceiveTraining(c) ==
    /\ at[c] = "receive"
    /\ peers[c].client_type = TRAINING
    /\ \/ /\ store_lock = {}
          /\ store_lock' = {c}
          /\ at' = [at EXCEPT ![c] = "update_cs"]
       \/ /\ at' = [at EXCEPT ![c] = "reply"]
          /\ UNCHANGED store_lock
    /\ UNCHANGED _lock
    /\ lock_frame

\* receive_json returns a frame of a socket of another type: an error frame.
ReceiveOther(c) ==
    /\ at[c] = "receive"
    /\ peers[c].client_type \notin {TRAINING, UI}
    /\ at' = [at EXCEPT ![c] = "reply"]
    /\ UNCHANGED <<_lock, store_lock>>
    /\ lock_frame

\* receive_json raises: the handler's finally disconnects.
ReceiveDown(c) ==
    /\ at[c] = "receive"
    /\ at' = [at EXCEPT ![c] = "finally_lock"]
    /\ UNCHANGED <<_lock, store_lock>>
    /\ lock_frame

\* add_command returns (the `with self._lock` block is left):
\* send_command_to_training goes on to _get_training_clients.
add_command_locked(c) ==
    /\ at[c] = "add_cs"
    /\ c \in store_lock
    /\ store_lock' = store_lock \ {c}
    /\ at' = [at EXCEPT ![c] = "clients_lock"]
    /\ UNCHANGED _lock
    /\ lock_frame

\* update_command_status returns and get_command is called: the store's lock
\* is released and taken again with no await between the two.
update_command_status_locked(c) ==
    /\ at[c] = "update_cs"
    /\ c \in store_lock
    /\ at' = [at EXCEPT ![c] = "get_cs"]
    /\ UNCHANGED <<_lock, store_lock>>
    /\ lock_frame

\* get_command returns: a command is broadcast (_get_ui_clients), None is not.
get_command_locked(c) ==
    /\ at[c] = "get_cs"
    /\ c \in store_lock
    /\ store_lock' = store_lock \ {c}
    /\ \E successor \in {"clients_lock", "receive"} :
            at' = [at EXCEPT ![c] = successor]
    /\ UNCHANGED _lock
    /\ lock_frame

\* _send_to_client's send_json returns: the loop goes on.
SendDone(c) ==
    /\ at[c] = "send"
    /\ \E successor \in next_send : at' = [at EXCEPT ![c] = successor]
    /\ UNCHANGED <<_lock, store_lock>>
    /\ lock_frame

\* _send_to_client's send_json raises: the target is disconnected.
SendDown(c) ==
    /\ at[c] = "send"
    /\ at' = [at EXCEPT ![c] = "disconnect_lock"]
    /\ UNCHANGED <<_lock, store_lock>>
    /\ lock_frame

\* The handler's send_json of an error frame returns: next receive_json.
ReplyDone(c) ==
    /\ at[c] = "reply"
    /\ at' = [at EXCEPT ![c] = "receive"]
    /\ UNCHANGED <<_lock, store_lock>>
    /\ lock_frame

\* The handler's send_json of an error frame raises: finally.
ReplyDown(c) ==
    /\ at[c] = "reply"
    /\ at' = [at EXCEPT ![c] = "finally_lock"]
    /\ UNCHANGED <<_lock, store_lock>>
    /\ lock_frame

NextLocks ==
    \E c \in Clients :
        \/ AcceptOk(c)
        \/ AcceptDown(c)
        \/ AcquireLock(c)
        \/ connect_locked(c)
        \/ _get_clients_locked(c)
        \/ _send_to_client_locked(c)
        \/ disconnect_locked(c)
        \/ ReceiveUI(c)
        \/ ReceiveTraining(c)
        \/ ReceiveOther(c)
        \/ ReceiveDown(c)
        \/ add_command_locked(c)
        \/ update_command_status_locked(c)
        \/ get_command_locked(c)
        \/ SendDone(c)
        \/ SendDown(c)
        \/ ReplyDone(c)
        \/ ReplyDown(c)

SpecLocks == InitLocks /\ [][NextLocks]_vars

\* ------------------------------------------------------------- C24
\* C24: in every reachable state, a handler that is awaiting a network
\* operation (accept, receive_json, send_json) holds neither the manager's
\* lock nor the CommandStore's lock.
C24_NoLockAcrossNetwork ==
    \A c \in Clients :
        at[c] \in NetworkAwait => (c \notin _lock /\ c \notin store_lock)

\* A handler awaits its send while another is inside a block of the
\* manager's lock and a third inside a method of the store.
C24_Witness ==
    \E a, b, d \in Clients :
        /\ at[a] = "send"
        /\ at[b] = "connect_cs" /\ b \in _lock
        /\ at[d] = "update_cs" /\ d \in store_lock

\* ------------------------------------------------------------- C25
\* C25: the client's terminal state: once close() has been called and the
\* listener thread has exited, the client is no longer reported as connected.
C25_StoppedNotConnected ==
    (~_running /\ listener = "exited") => ~_connected

\* ------------------------------------------------------------- C29
\* C29: no socket is leaked by a close() that races with the listener thread:
\* once the thread has exited, the connection it established is closed.
C29_NoSocketLeaked ==
    (~_running /\ listener = "exited" /\ _ws # None) => ~open[ClientPeer]

\* ------------------------------------------------------------- C26
\* C26: a connection declared as training, ui or api never yields an
\* unknown_client_type error frame, neither as the reply its handler is
\* sending nor as a frame its peer has received.
C26_KnownTypeNotRejected ==
    \A c \in Clients :
        peers[c].client_type \in ConnectionType
            => /\ ~(pc[c] = "reply" /\ reply[c] = error_frame("unknown_client_type"))
               /\ error_frame("unknown_client_type") \notin Range(inbox[c])

\* ------------------------------------------------------------- C27
\* C27: every command stored through send_command_to_training(run_hash,
\* command) has command.run_hash equal to run_hash, the run of the UI socket
\* that issued it.
C27_StoredUnderSocketRun ==
    [][\A c \in Clients, data \in UIFrames :
          IssuesCommand(c, data)
              => get_command(Store', data.id).run_hash = run_hash[c]]_vars

\* ------------------------------------------------------------- C28
\* C28: status updates are run-scoped: a status update received on a training
\* socket of run R that names a command of another run changes nothing in the
\* store and starts no command_update broadcast.
C28_StatusUpdateRunScoped ==
    [][\A c \in Clients, data \in TrainingFrames :
          (/\ ReportsStatus(c, data)
           /\ get_command(Store, data.id) # NoCommand
           /\ get_command(Store, data.id).run_hash # run_hash[c])
              => /\ UNCHANGED <<command_history, command_dict>>
                 /\ pc'[c] # "broadcast"]_vars

====
